---- MODULE Spec2Model ----
(***************************************************************************)
(* Model of scrape_value.py, the Yahoo! Fantasy Football auction draft     *)
(* value scraper: process_player, process_page, write_auction_draft_values *)
(* and get_auction_draft_values.                                           *)
(*                                                                         *)
(* A Python str is a sequence of one-character strings.  A Python dict is  *)
(* a sequence of <<key, value>> pairs in insertion order (dicts keep the   *)
(* order in which keys were first inserted).                               *)
(***************************************************************************)
EXTENDS Integers, Sequences, FiniteSets, TLC

VARIABLES
    pc,                  \* position of the running function
    driver,              \* the selenium session: "none", "open", "closed"
    total_players,       \* argument of get_auction_draft_values
    offsets,             \* what is left of range(0, total_players, 50)
    fetched,             \* the counts given to driver.get, in order
    pages,               \* the rows each fetched page held, in order
    auction_values_list, \* the accumulated list of player dicts
    warnings,            \* the warnings logged, in order
    file,                \* the output file: created?, and the strings written
    exc,                 \* the exception that left the function, or "none"
    player_row,          \* argument of a direct call of process_player
    draft_values,        \* what that call returned
    read_back            \* the file re-read as CSV with the header as keys

vars == <<pc, driver, total_players, offsets, fetched, pages,
          auction_values_list, warnings, file, exc, player_row,
          draft_values, read_back>>

-----------------------------------------------------------------------------
(* Bounds of the model *)

\* total_players ranges up to MaxPages full pages
MaxPages == 2
\* longest list given to a direct call of write_auction_draft_values
MaxRecords == 2
\* longest combined "TEAM - POS" text given to a direct call of process_player
MaxCombinedLen == 5

-----------------------------------------------------------------------------
(* Characters and strings *)

COMMA == ","
DQUOTE == "\""
CR == "\r"
LF == "\n"
SPACE == " "
DASH == "-"

RECURSIVE Concat(_)
\* ''.join(seqs)
Concat(seqs) ==
    IF seqs = <<>> THEN <<>> ELSE Head(seqs) \o Concat(Tail(seqs))

RECURSIVE StringsUpTo(_, _)
\* every string over alphabet of length at most n
StringsUpTo(alphabet, n) ==
    IF n = 0 THEN {<<>>}
    ELSE LET shorter == StringsUpTo(alphabet, n - 1)
         IN  shorter \cup {Append(s, c) : s \in shorter, c \in alphabet}

-----------------------------------------------------------------------------
(* Module constants *)

YAHOO_RESULTS_PER_PAGE == 50

NAME == <<"N", "a", "m", "e">>
POSITION == <<"P", "o", "s", "i", "t", "i", "o", "n">>
TEAM == <<"T", "e", "a", "m">>
PROJECTED_VALUE ==
    <<"P", "r", "o", "j", "e", "c", "t", "e", "d", " ", "V", "a", "l", "u", "e">>
AVERAGE_COST == <<"A", "v", "e", "r", "a", "g", "e", " ", "C", "o", "s", "t">>
PERCENT_DRAFTED ==
    <<"P", "e", "r", "c", "e", "n", "t", " ", "D", "r", "a", "f", "t", "e", "d">>

fields ==
    <<NAME, POSITION, TEAM, PROJECTED_VALUE, AVERAGE_COST, PERCENT_DRAFTED>>

\* the keys of XPATH_MAP in the order the dict literal inserts them
XPATH_MAP == <<NAME, POSITION, PROJECTED_VALUE, AVERAGE_COST, PERCENT_DRAFTED>>

\* ' - ', the separator between team and position
TEAM_POS_SEP == <<SPACE, DASH, SPACE>>

-----------------------------------------------------------------------------
(* dict operations *)

DictKeys(d) == {d[i][1] : i \in 1..Len(d)}

DictHas(d, k) == \E i \in 1..Len(d) : d[i][1] = k

\* d.get(k, default)
DictGet(d, k, default) ==
    IF DictHas(d, k)
    THEN d[CHOOSE i \in 1..Len(d) : d[i][1] = k][2]
    ELSE default

\* d[k] = v: an existing key keeps its place, a new key goes last
DictSet(d, k, v) ==
    IF DictHas(d, k)
    THEN [i \in 1..Len(d) |-> IF d[i][1] = k THEN <<k, v>> ELSE d[i]]
    ELSE Append(d, <<k, v>>)

-----------------------------------------------------------------------------
(* str.split(sep) *)

\* s[i:i+len(sep)] == sep
MatchesAt(s, sep, i) ==
    /\ i + Len(sep) - 1 <= Len(s)
    /\ \A j \in 1..Len(sep) : s[i + j - 1] = sep[j]

\* s.find(sep), 1-based; 0 when sep does not occur
Find(s, sep) ==
    IF \E i \in 1..Len(s) : MatchesAt(s, sep, i)
    THEN CHOOSE i \in 1..Len(s) :
            /\ MatchesAt(s, sep, i)
            /\ \A j \in 1..(i - 1) : ~MatchesAt(s, sep, j)
    ELSE 0

RECURSIVE Split(_, _)
\* s.split(sep): cut at each occurrence found scanning left to right
Split(s, sep) ==
    LET i == Find(s, sep)
    IN  IF i = 0 THEN <<s>>
        ELSE <<SubSeq(s, 1, i - 1)>>
                 \o Split(SubSeq(s, i + Len(sep), Len(s)), sep)

-----------------------------------------------------------------------------
(* process_player *)

\* what find_element_by_xpath gives for a column the row does not hold
NoSuchElement == <<"NoSuchElementException">>

\* as AssignTeamPosition, with the two names of the unpacking exchanged
AssignPositionTeam(values, parts) ==
    DictSet(DictSet(values, POSITION, parts[1]), TEAM, parts[2])

\* team, position = parts; draft_values['Position'] = position;
\* draft_values['Team'] = team
AssignTeamPosition(values, parts) ==
    DictSet(DictSet(values, POSITION, parts[2]), TEAM, parts[1])

\* A row is a function from the keys of XPATH_MAP to the innerHTML of the
\* element at that xpath, or NoSuchElement.  The result is the dict returned,
\* or the exception raised.
ProcessPlayer(row) ==
    IF \E i \in 1..Len(XPATH_MAP) : row[XPATH_MAP[i]] = NoSuchElement
    THEN [ok |-> FALSE, exc |-> "NoSuchElementException", values |-> <<>>]
    ELSE LET scraped == [i \in 1..Len(XPATH_MAP) |->
                            <<XPATH_MAP[i], row[XPATH_MAP[i]]>>]
             parts == Split(DictGet(scraped, POSITION, <<>>), TEAM_POS_SEP)
         IN  IF Len(parts) # 2
             THEN [ok |-> FALSE, exc |-> "ValueError", values |-> <<>>]
             ELSE [ok |-> TRUE, exc |-> "none",
                   values |-> AssignTeamPosition(scraped, parts)]

-----------------------------------------------------------------------------
(* csv.DictWriter(f, delimiter=',', fieldnames=fields) on                  *)
(* open(out_filename, 'w', newline="\n", encoding="utf-8")                  *)

\* the 'excel' dialect, which the call leaves in place but for the delimiter
DELIMITER == COMMA
QUOTECHAR == DQUOTE
LINETERMINATOR == <<CR, LF>>
\* DictWriter's restval, written for a key the dict does not hold
RESTVAL == <<>>
\* the newline argument of open()
FILE_NEWLINE == <<LF>>

\* QUOTE_MINIMAL: a field is quoted when it holds the delimiter, the quote
\* character or a character of the line terminator
NeedsQuote(s) ==
    \E i \in 1..Len(s) :
        \/ s[i] = DELIMITER
        \/ s[i] = QUOTECHAR
        \/ \E j \in 1..Len(LINETERMINATOR) : s[i] = LINETERMINATOR[j]

\* as DoubleQuotes, with the quote characters of the field left single
DoubleQuotesLeftSingle(s) == s

\* doublequote: each quote character inside a quoted field is written twice
DoubleQuotes(s) ==
    Concat([i \in 1..Len(s) |->
               IF s[i] = QUOTECHAR THEN <<QUOTECHAR, QUOTECHAR>> ELSE <<s[i]>>])

QuoteField(s) ==
    IF NeedsQuote(s)
    THEN <<QUOTECHAR>> \o DoubleQuotes(s) \o <<QUOTECHAR>>
    ELSE s

\* csv.writer.writerow: the quoted fields joined by the delimiter, then the
\* line terminator (a lone empty field is written as "")
JoinRow(values) ==
    IF Len(values) = 1 /\ values[1] = <<>>
    THEN <<QUOTECHAR, QUOTECHAR>> \o LINETERMINATOR
    ELSE Concat([i \in 1..Len(values) |->
                    (IF i = 1 THEN <<>> ELSE <<DELIMITER>>)
                        \o QuoteField(values[i])])
             \o LINETERMINATOR

\* as DictToList, with the values in the dict's own order
DictToListInsertionOrder(rowdict) ==
    [j \in 1..Len(rowdict) |-> rowdict[j][2]]

\* DictWriter._dict_to_list: the dict's values in the order of fieldnames
DictToList(rowdict) ==
    [j \in 1..Len(fields) |-> DictGet(rowdict, fields[j], RESTVAL)]

\* TextIOWrapper.write: each '\n' of the text becomes the newline argument
TranslateNewlines(text) ==
    Concat([i \in 1..Len(text) |->
               IF text[i] = LF THEN FILE_NEWLINE ELSE <<text[i]>>])

\* csv_writer.writeheader(): the row of the field names
HeaderLine == TranslateNewlines(JoinRow(fields))

\* csv_writer.writerow(row)
RowLine(rowdict) == TranslateNewlines(JoinRow(DictToList(rowdict)))

\* write_auction_draft_values: the strings written to the file, one per
\* writeheader/writerow call
WriteAuctionDraftValues(values_list) ==
    <<HeaderLine>> \o [i \in 1..Len(values_list) |-> RowLine(values_list[i])]

\* the content of the file
FileText == Concat(file.lines)

-----------------------------------------------------------------------------
(* Re-reading the file: csv.DictReader over open(out_filename, newline='') *)

EOL == "EOL"
NoValue == <<"None">>

SaveField(st) == [st EXCEPT !.row = Append(@, st.field), !.field = <<>>]

AddChar(st, c) == [st EXCEPT !.field = Append(@, c)]

IsNewline(c) == c = LF \/ c = CR

\* one step of the reader's automaton on character c, or on EOL at the end
\* of each line
ParseStartField(st, c) ==
    IF IsNewline(c) \/ c = EOL
    THEN [SaveField(st) EXCEPT
             !.state = IF c = EOL THEN "START_RECORD" ELSE "EAT_CRNL"]
    ELSE IF c = QUOTECHAR THEN [st EXCEPT !.state = "IN_QUOTED_FIELD"]
    ELSE IF c = DELIMITER THEN [SaveField(st) EXCEPT !.state = "START_FIELD"]
    ELSE [AddChar(st, c) EXCEPT !.state = "IN_FIELD"]

ParseChar(st, c) ==
    CASE st.state = "START_RECORD" ->
            IF c = EOL THEN st
            ELSE IF IsNewline(c) THEN [st EXCEPT !.state = "EAT_CRNL"]
            ELSE ParseStartField(st, c)
      [] st.state = "START_FIELD" -> ParseStartField(st, c)
      [] st.state = "IN_FIELD" ->
            IF IsNewline(c) \/ c = EOL
            THEN [SaveField(st) EXCEPT
                     !.state = IF c = EOL THEN "START_RECORD" ELSE "EAT_CRNL"]
            ELSE IF c = DELIMITER
            THEN [SaveField(st) EXCEPT !.state = "START_FIELD"]
            ELSE AddChar(st, c)
      [] st.state = "IN_QUOTED_FIELD" ->
            IF c = EOL THEN st
            ELSE IF c = QUOTECHAR
            THEN [st EXCEPT !.state = "QUOTE_IN_QUOTED_FIELD"]
            ELSE AddChar(st, c)
      [] st.state = "QUOTE_IN_QUOTED_FIELD" ->
            IF c = QUOTECHAR
            THEN [AddChar(st, c) EXCEPT !.state = "IN_QUOTED_FIELD"]
            ELSE IF c = DELIMITER
            THEN [SaveField(st) EXCEPT !.state = "START_FIELD"]
            ELSE IF IsNewline(c) \/ c = EOL
            THEN [SaveField(st) EXCEPT
                     !.state = IF c = EOL THEN "START_RECORD" ELSE "EAT_CRNL"]
            ELSE [AddChar(st, c) EXCEPT !.state = "IN_FIELD"]
      [] st.state = "EAT_CRNL" ->
            IF IsNewline(c) THEN st
            ELSE IF c = EOL THEN [st EXCEPT !.state = "START_RECORD"]
            ELSE [st EXCEPT !.state = "ERROR"]
      [] OTHER -> st

\* with newline='' a line of the file ends after '\n', after '\r\n' and
\* after a '\r' that no '\n' follows, and at the end of the file
EndsLine(text, i) ==
    \/ i = Len(text)
    \/ text[i] = LF
    \/ text[i] = CR /\ text[i + 1] # LF

\* the lines the file iterator gives, each with its line end
FileLines(text) ==
    LET ends == {i \in 1..Len(text) : EndsLine(text, i)}
        \* where the line that ends at e starts
        StartOf(e) ==
            IF \E d \in ends : d < e
            THEN 1 + CHOOSE d \in ends :
                        d < e /\ \A c \in ends : c < e => c <= d
            ELSE 1
        \* the k-th line end
        EndNo(k) == CHOOSE e \in ends : Cardinality({d \in ends : d <= e}) = k
    IN  [k \in 1..Cardinality(ends) |->
            SubSeq(text, StartOf(EndNo(k)), EndNo(k))]

RECURSIVE ParseLine(_, _, _)
\* the automaton run over the characters of a line from the j-th on, then
\* over EOL
ParseLine(st, line, j) ==
    IF st.state = "ERROR" THEN st
    ELSE IF j > Len(line) THEN ParseChar(st, EOL)
    ELSE ParseLine(ParseChar(st, line[j]), line, j + 1)

RECURSIVE ParseLines(_, _, _)
\* Reader.__next__ over and over: lines are read until the automaton is
\* back in START_RECORD, and the fields read make a row.  When the file ends
\* inside a record, the fields read so far make the last row.
ParseLines(st, lines, k) ==
    IF st.state = "ERROR" THEN st.rows
    ELSE IF k > Len(lines)
    THEN IF st.state # "START_RECORD"
              /\ (st.field # <<>> \/ st.state = "IN_QUOTED_FIELD")
         THEN Append(st.rows, SaveField(st).row)
         ELSE st.rows
    ELSE LET after == ParseLine(st, lines[k], 1)
         IN  ParseLines(IF after.state = "START_RECORD"
                        THEN [after EXCEPT !.rows = Append(@, after.row),
                                           !.row = <<>>]
                        ELSE after,
                        lines, k + 1)

\* list(csv.reader(f))
CsvReader(text) ==
    ParseLines([state |-> "START_RECORD", field |-> <<>>, row |-> <<>>,
                rows |-> <<>>],
               FileLines(text), 1)

\* list(csv.DictReader(f)): the first row names the keys, empty rows are
\* skipped, a short row is filled with None
DictReader(text) ==
    LET rows == CsvReader(text)
        fieldnames == IF rows = <<>> THEN <<>> ELSE rows[1]
        data == SelectSeq(Tail(rows), LAMBDA r : r # <<>>)
    IN  IF rows = <<>> THEN <<>>
        ELSE [i \in 1..Len(data) |->
                 [j \in 1..Len(fieldnames) |->
                     <<fieldnames[j],
                       IF j <= Len(data[i]) THEN data[i][j] ELSE NoValue>>]]

-----------------------------------------------------------------------------
(* process_page *)

\* as PageWarns, silent for a page without rows
PageWarnsNonEmpty(n) == 0 < n /\ n < YAHOO_RESULTS_PER_PAGE

\* len(auction_values_list) < YAHOO_RESULTS_PER_PAGE
PageWarns(n) == n < YAHOO_RESULTS_PER_PAGE

Warning(kind, rows, cnt, expected) ==
    [kind |-> kind, rows |-> rows, cnt |-> cnt, expected |-> expected]

\* as ProcessPage, with a row that raises skipped instead
ProcessPageSkipping(rows) ==
    LET stats == [i \in 1..Len(rows) |-> ProcessPlayer(rows[i])]
        kept == SelectSeq(stats, LAMBDA r : r.ok)
    IN  [ok |-> TRUE, exc |-> "none",
         values |-> [i \in 1..Len(kept) |-> kept[i].values],
         warns |-> PageWarns(Len(kept))]

\* The loop over the rows found and the check of their number: the list
\* returned and whether the warning is logged, or the exception of the first
\* row that raises.
ProcessPage(rows) ==
    LET stats == [i \in 1..Len(rows) |-> ProcessPlayer(rows[i])]
    IN  IF \E i \in 1..Len(rows) : ~stats[i].ok
        THEN LET first == CHOOSE i \in 1..Len(rows) :
                              /\ ~stats[i].ok
                              /\ \A j \in 1..(i - 1) : stats[j].ok
             IN  [ok |-> FALSE, exc |-> stats[first].exc, values |-> <<>>,
                  warns |-> FALSE]
        ELSE [ok |-> TRUE, exc |-> "none",
              values |-> [i \in 1..Len(rows) |-> stats[i].values],
              warns |-> PageWarns(Len(rows))]

-----------------------------------------------------------------------------
(* get_auction_draft_values *)

RECURSIVE RangeFloor(_, _, _)
\* as Range, without the last count when stop is no multiple of step
RangeFloor(start, stop, step) ==
    IF start + step <= stop
    THEN <<start>> \o RangeFloor(start + step, stop, step)
    ELSE <<>>

RECURSIVE Range(_, _, _)
\* list(range(start, stop, step)) for a positive step
Range(start, stop, step) ==
    IF start < stop THEN <<start>> \o Range(start + step, stop, step) ELSE <<>>

\* as Extend, with the players already in the list left out
ExtendUnique(values_list, page_stats) ==
    values_list
        \o SelectSeq(page_stats,
                     LAMBDA p : \A i \in 1..Len(values_list) :
                                   values_list[i] # p)

\* auction_values_list.extend(page_stats)
Extend(values_list, page_stats) == values_list \o page_stats

\* as TotalWarns, only when nothing at all was scraped
TotalWarnsNothing(n, total) == n = 0 /\ n < total

\* len(auction_values_list) < total_players
TotalWarns(n, total) == n < total

-----------------------------------------------------------------------------
(* Inputs *)

\* a table row with the given innerHTML under each xpath
Row(name, position, projected, cost, percent) ==
    [k \in {XPATH_MAP[i] : i \in 1..Len(XPATH_MAP)} |->
        CASE k = NAME -> name
          [] k = POSITION -> position
          [] k = PROJECTED_VALUE -> projected
          [] k = AVERAGE_COST -> cost
          [] OTHER -> percent]

RowA == Row(<<"a">>, <<"A", SPACE, DASH, SPACE, "Q">>, <<"1">>, <<"2">>, <<"3">>)
RowB ==
    Row(<<"b", COMMA>>, <<"B", SPACE, DASH, SPACE, "K">>, <<"4">>, <<"5">>,
        <<"6">>)
\* no ' - ' in the combined text
RowNoSep == Row(<<"c">>, <<"A", "Q">>, <<"1">>, <<"2">>, <<"3">>)
\* two ' - ' in the combined text
RowTwoSeps ==
    Row(<<"d">>,
        <<"A", SPACE, DASH, SPACE, "Q", SPACE, DASH, SPACE, "K">>,
        <<"1">>, <<"2">>, <<"3">>)
\* the row holds no element at the xpath of Percent Drafted
RowMissing ==
    Row(<<"e">>, <<"A", SPACE, DASH, SPACE, "Q">>, <<"1">>, <<"2">>,
        NoSuchElement)

FullPage ==
    [i \in 1..YAHOO_RESULTS_PER_PAGE |-> IF i % 2 = 1 THEN RowA ELSE RowB]

\* what find_elements_by_xpath may return for a page
PageSet ==
    {<<>>, <<RowA>>, <<RowB, RowA>>, FullPage, <<RowA, RowNoSep>>,
     <<RowTwoSeps>>, <<RowMissing, RowA>>}

\* the values of --num_players tried: around each multiple of the page size
TotalPlayersSet ==
    {n \in {k * YAHOO_RESULTS_PER_PAGE + d : k \in 0..MaxPages, d \in {-1, 0, 1}} :
        n <= MaxPages * YAHOO_RESULTS_PER_PAGE}

\* where a write to the file may fail: at open(), or at the n-th write
WriteFailPoints == {0, 1, 2}

\* the key orders of the dicts given to a direct call of
\* write_auction_draft_values: that of fields, and that of process_player
KeyOrders ==
    {fields,
     <<NAME, POSITION, PROJECTED_VALUE, AVERAGE_COST, PERCENT_DRAFTED, TEAM>>}

\* field texts that need, or do not need, quoting
FieldTexts ==
    {<<>>, <<"x">>, <<COMMA>>, <<DQUOTE>>, <<LF>>, <<CR>>, <<"x", DQUOTE>>,
     <<DQUOTE, DQUOTE>>, <<CR, LF>>}

\* a player dict with the given key order, name and percent drafted
PlayerDict(order, name, percent) ==
    [i \in 1..Len(order) |->
        <<order[i],
          CASE order[i] = NAME -> name
            [] order[i] = POSITION -> <<"Q">>
            [] order[i] = TEAM -> <<"A">>
            [] order[i] = PROJECTED_VALUE -> <<"1">>
            [] order[i] = AVERAGE_COST -> <<"2">>
            [] OTHER -> percent>>]

RecordSet ==
    {PlayerDict(o, v, <<"3">>) : o \in KeyOrders, v \in FieldTexts}
        \cup {PlayerDict(o, <<"a">>, v) : o \in KeyOrders, v \in FieldTexts}

RECURSIVE ListsUpTo(_, _)
ListsUpTo(S, n) ==
    IF n = 0 THEN {<<>>}
    ELSE LET shorter == ListsUpTo(S, n - 1)
         IN  shorter \cup {Append(l, r) : l \in shorter, r \in S}

CombinedTexts == StringsUpTo({"A", "Q", SPACE, DASH}, MaxCombinedLen)

PlayerRowSet ==
    {Row(name, c, <<"1">>, <<"2">>, <<"3">>) :
        name \in {<<"a">>, NoSuchElement}, c \in CombinedTexts}

NoFile == [created |-> FALSE, lines |-> <<>>]

-----------------------------------------------------------------------------
(* The run of get_auction_draft_values *)

Init ==
    /\ pc = "start"
    /\ driver = "none"
    /\ total_players \in TotalPlayersSet
    /\ offsets = <<>>
    /\ fetched = <<>>
    /\ pages = <<>>
    /\ auction_values_list = <<>>
    /\ warnings = <<>>
    /\ file = NoFile
    /\ exc = "none"
    /\ player_row = Row(<<>>, <<>>, <<>>, <<>>, <<>>)
    /\ draft_values = [ok |-> FALSE, exc |-> "none", values |-> <<>>]
    /\ read_back = <<>>

\* driver = webdriver.Chrome(); auction_values_list = []; the range of the
\* for loop is evaluated
Start ==
    /\ pc = "start"
    /\ driver' = "open"
    /\ offsets' = Range(0, total_players, YAHOO_RESULTS_PER_PAGE)
    /\ auction_values_list' = <<>>
    /\ pc' = "loop"
    /\ UNCHANGED <<total_players, fetched, pages, warnings, file, exc,
                   player_row, draft_values, read_back>>

\* one turn of the loop: process_page returns, the list is extended
ProcessPageReturns ==
    /\ pc = "loop"
    /\ offsets # <<>>
    /\ \E rows \in PageSet :
          LET page == ProcessPage(rows)
              cnt == Head(offsets)
          IN  /\ page.ok
              /\ fetched' = Append(fetched, cnt)
              /\ pages' = Append(pages, rows)
              /\ warnings' =
                    IF page.warns
                    THEN Append(warnings,
                                Warning("page", Len(page.values), cnt,
                                        YAHOO_RESULTS_PER_PAGE))
                    ELSE warnings
              /\ auction_values_list' =
                    Extend(auction_values_list, page.values)
    /\ offsets' = Tail(offsets)
    /\ UNCHANGED <<pc, driver, total_players, file, exc, player_row,
                   draft_values, read_back>>

\* one turn of the loop: process_player raises on a row of the page
ProcessPageRaises ==
    /\ pc = "loop"
    /\ offsets # <<>>
    /\ \E rows \in PageSet :
          LET page == ProcessPage(rows)
          IN  /\ ~page.ok
              /\ fetched' = Append(fetched, Head(offsets))
              /\ pages' = Append(pages, rows)
              /\ exc' = page.exc
    /\ pc' = "raised"
    /\ UNCHANGED <<driver, total_players, offsets, auction_values_list,
                   warnings, file, player_row, draft_values, read_back>>

\* one turn of the loop: driver.get(url) raises (the page load timeout)
PageLoadRaises ==
    /\ pc = "loop"
    /\ offsets # <<>>
    /\ fetched' = Append(fetched, Head(offsets))
    /\ exc' = "TimeoutException"
    /\ pc' = "raised"
    /\ UNCHANGED <<driver, total_players, offsets, pages,
                   auction_values_list, warnings, file, player_row,
                   draft_values, read_back>>

\* the loop is over: the check of the number of players scraped
CheckTotal ==
    /\ pc = "loop"
    /\ offsets = <<>>
    /\ warnings' =
          IF TotalWarns(Len(auction_values_list), total_players)
          THEN Append(warnings,
                      Warning("total", Len(auction_values_list), -1,
                              total_players))
          ELSE warnings
    /\ pc' = "write"
    /\ UNCHANGED <<driver, total_players, offsets, fetched, pages,
                   auction_values_list, file, exc, player_row, draft_values,
                   read_back>>

\* write_auction_draft_values(auction_values_list, csv_file) returns
WriteReturns ==
    /\ pc = "write"
    /\ file' = [created |-> TRUE,
                lines |-> WriteAuctionDraftValues(auction_values_list)]
    /\ pc' = "close"
    /\ UNCHANGED <<driver, total_players, offsets, fetched, pages,
                   auction_values_list, warnings, exc, player_row,
                   draft_values, read_back>>

\* write_auction_draft_values raises: open() fails (n = 0), or the n-th
\* write to the file does
WriteRaises ==
    /\ pc = "write"
    /\ \E n \in WriteFailPoints :
          /\ n <= 1 + Len(auction_values_list)
          /\ file' =
                IF n = 0 THEN file
                ELSE [created |-> TRUE,
                      lines |-> SubSeq(WriteAuctionDraftValues(
                                           auction_values_list), 1, n - 1)]
    /\ exc' = "OSError"
    /\ pc' = "raised"
    /\ UNCHANGED <<driver, total_players, offsets, fetched, pages,
                   auction_values_list, warnings, player_row, draft_values,
                   read_back>>

\* driver.close()
Close ==
    /\ pc = "close"
    /\ driver' = "closed"
    /\ pc' = "done"
    /\ UNCHANGED <<total_players, offsets, fetched, pages,
                   auction_values_list, warnings, file, exc, player_row,
                   draft_values, read_back>>

Next ==
    \/ Start
    \/ ProcessPageReturns
    \/ ProcessPageRaises
    \/ PageLoadRaises
    \/ CheckTotal
    \/ WriteReturns
    \/ WriteRaises
    \/ Close

Spec == Init /\ [][Next]_vars

-----------------------------------------------------------------------------
(* write_auction_draft_values called on a list of player dicts, and the    *)
(* file read again                                                         *)

InitWrite ==
    /\ pc = "write_call"
    /\ driver = "none"
    /\ total_players = 0
    /\ offsets = <<>>
    /\ fetched = <<>>
    /\ pages = <<>>
    /\ auction_values_list \in ListsUpTo(RecordSet, MaxRecords)
    /\ warnings = <<>>
    /\ file = NoFile
    /\ exc = "none"
    /\ player_row = Row(<<>>, <<>>, <<>>, <<>>, <<>>)
    /\ draft_values = [ok |-> FALSE, exc |-> "none", values |-> <<>>]
    /\ read_back = <<>>

WriteCall ==
    /\ pc = "write_call"
    /\ file' = [created |-> TRUE,
                lines |-> WriteAuctionDraftValues(auction_values_list)]
    /\ pc' = "written"
    /\ UNCHANGED <<driver, total_players, offsets, fetched, pages,
                   auction_values_list, warnings, exc, player_row,
                   draft_values, read_back>>

ReadBack ==
    /\ pc = "written"
    /\ read_back' = DictReader(FileText)
    /\ pc' = "read"
    /\ UNCHANGED <<driver, total_players, offsets, fetched, pages,
                   auction_values_list, warnings, file, exc, player_row,
                   draft_values>>

NextWrite ==
    \/ WriteCall
    \/ ReadBack

SpecWrite == InitWrite /\ [][NextWrite]_vars

-----------------------------------------------------------------------------
(* process_player called on a table row *)

InitPlayer ==
    /\ pc = "player_call"
    /\ driver = "none"
    /\ total_players = 0
    /\ offsets = <<>>
    /\ fetched = <<>>
    /\ pages = <<>>
    /\ auction_values_list = <<>>
    /\ warnings = <<>>
    /\ file = NoFile
    /\ exc = "none"
    /\ player_row \in PlayerRowSet
    /\ draft_values = [ok |-> FALSE, exc |-> "none", values |-> <<>>]
    /\ read_back = <<>>

PlayerCall ==
    /\ pc = "player_call"
    /\ draft_values' = ProcessPlayer(player_row)
    /\ pc' = IF draft_values'.ok THEN "player_done" ELSE "player_raised"
    /\ UNCHANGED <<driver, total_players, offsets, fetched, pages,
                   auction_values_list, warnings, file, exc, player_row,
                   read_back>>

NextPlayer == PlayerCall

SpecPlayer == InitPlayer /\ [][NextPlayer]_vars

-----------------------------------------------------------------------------
(* Properties *)

\* the number of counts 0, 50, 100, ... below n
NumOffsets(n) ==
    IF n <= 0 THEN 0
    ELSE (n + YAHOO_RESULTS_PER_PAGE - 1) \div YAHOO_RESULTS_PER_PAGE

\* every row of the page gives a player: each element is found and the
\* combined text splits in two
PageScrapes(rows) ==
    \A i \in 1..Len(rows) :
        /\ \A j \in 1..Len(XPATH_MAP) : rows[i][XPATH_MAP[j]] # NoSuchElement
        /\ Len(Split(rows[i][POSITION], TEAM_POS_SEP)) = 2

\* the players of a page that scrapes
PlayersOf(rows) == [i \in 1..Len(rows) |-> ProcessPlayer(rows[i]).values]

\* the players of all the pages fetched, in the order fetched
AllPlayers == Concat([k \in 1..Len(pages) |-> PlayersOf(pages[k])])

RECURSIVE RowsBefore(_)
\* the number of rows on the pages fetched before the k-th
RowsBefore(k) == IF k <= 1 THEN 0 ELSE RowsBefore(k - 1) + Len(pages[k - 1])

\* the function was left by an exception raised while scraping
ScrapeRaised ==
    /\ pc = "raised"
    /\ exc \in {"TimeoutException", "NoSuchElementException", "ValueError"}

\* the line of the file that holds the given cells
LineOf(cells) ==
    cells[1] \o <<COMMA>> \o cells[2] \o <<COMMA>> \o cells[3] \o <<COMMA>>
        \o cells[4] \o <<COMMA>> \o cells[5] \o <<COMMA>> \o cells[6]
        \o LINETERMINATOR

\* the line of a player dict with its columns in the declared order
ExpectedLine(d) ==
    LineOf(<<QuoteField(DictGet(d, NAME, <<>>)),
             QuoteField(DictGet(d, POSITION, <<>>)),
             QuoteField(DictGet(d, TEAM, <<>>)),
             QuoteField(DictGet(d, PROJECTED_VALUE, <<>>)),
             QuoteField(DictGet(d, AVERAGE_COST, <<>>)),
             QuoteField(DictGet(d, PERCENT_DRAFTED, <<>>))>>)

ExpectedHeader ==
    LineOf(<<NAME, POSITION, TEAM, PROJECTED_VALUE, AVERAGE_COST,
             PERCENT_DRAFTED>>)

HasLineBreak(d) ==
    \E i \in 1..Len(d) : \E j \in 1..Len(d[i][2]) : IsNewline(d[i][2][j])

\* the places of text where ' - ' occurs
SepPlaces(text) ==
    {i \in 1..(Len(text) - 2) : SubSeq(text, i, i + 2) = TEAM_POS_SEP}

\* C1: whenever get_auction_draft_values has been left, by its return or by
\* an exception, the browser session is closed.
C1_DriverClosedOnEveryExit ==
    pc \in {"done", "raised"} => driver = "closed"

\* C2: after write_auction_draft_values the file is the header line, then
\* one line per dict of the list, in the order of the list, each with its
\* columns in the declared order whatever the key order of the dict; when no
\* value holds a line break the file has as many line ends as that.
C2_HeaderThenOneLinePerRecord ==
    pc \in {"written", "read"} =>
        /\ file.created
        /\ Len(file.lines) = 1 + Len(auction_values_list)
        /\ file.lines[1] = ExpectedHeader
        /\ \A i \in 1..Len(auction_values_list) :
              file.lines[i + 1] = ExpectedLine(auction_values_list[i])
        /\ (\A i \in 1..Len(auction_values_list) :
                ~HasLineBreak(auction_values_list[i]))
              => Cardinality({i \in 1..Len(FileText) : FileText[i] = LF})
                     = 1 + Len(auction_values_list)

C2_Witness ==
    /\ pc = "written"
    /\ Len(auction_values_list) = 2
    /\ auction_values_list[1][6][1] = TEAM
    /\ auction_values_list[2][3][1] = TEAM
    /\ DictGet(auction_values_list[1], NAME, <<>>) = <<COMMA>>

\* C3: a page that scrapes with fewer than 50 rows (none included) logs the
\* page warning, its rows are in the list at their place, the run is not
\* left at that page, the counts after it stay to be fetched, and once the
\* loop is over every count below total_players was fetched.
C3_ShortPageWarnsAndContinues ==
    \A k \in 1..Len(pages) :
        (Len(pages[k]) < YAHOO_RESULTS_PER_PAGE /\ PageScrapes(pages[k])) =>
            /\ \E w \in 1..Len(warnings) :
                  warnings[w] = Warning("page", Len(pages[k]), fetched[k],
                                        YAHOO_RESULTS_PER_PAGE)
            /\ ~(ScrapeRaised /\ Len(fetched) = k)
            /\ Len(auction_values_list) >= RowsBefore(k) + Len(pages[k])
            /\ SubSeq(auction_values_list, RowsBefore(k) + 1,
                      RowsBefore(k) + Len(pages[k])) = PlayersOf(pages[k])
            /\ (pc = "loop" /\ Len(fetched) = k) =>
                  offsets = [j \in 1..(NumOffsets(total_players) - k) |->
                                (k + j - 1) * YAHOO_RESULTS_PER_PAGE]
            /\ pc \in {"write", "close", "done"} =>
                  Len(fetched) = NumOffsets(total_players)

C3_Witness ==
    /\ pc = "done"
    /\ Len(pages) = 2
    /\ pages[1] = <<>>
    /\ Len(pages[2]) = 1

\* C4: when the loop is over with fewer players than total_players, the
\* total warning is logged, and once the file is written it holds the header
\* and the line of every row scraped.
C4_PartialResultWarnsAndIsWritten ==
    (pc \in {"write", "close", "done"}
        /\ Len(auction_values_list) < total_players) =>
        /\ \E w \in 1..Len(warnings) :
              warnings[w] = Warning("total", Len(auction_values_list), -1,
                                    total_players)
        /\ Len(auction_values_list) = RowsBefore(Len(pages) + 1)
        /\ pc \in {"close", "done"} =>
              /\ file.created
              /\ Len(file.lines) = 1 + RowsBefore(Len(pages) + 1)
              /\ \A i \in 1..Len(auction_values_list) :
                    file.lines[i + 1] = RowLine(auction_values_list[i])

C4_Witness ==
    /\ pc = "done"
    /\ total_players = 2 * YAHOO_RESULTS_PER_PAGE
    /\ Len(auction_values_list) = YAHOO_RESULTS_PER_PAGE + 1

\* C5: when every element of the row is found and ' - ' occurs exactly once
\* in the combined text, process_player returns a dict whose Team is the
\* text before it, whose Position is the text after it and whose other
\* values are the ones of the row.
C5_TeamBeforePositionAfter ==
    LET combined == player_row[POSITION]
    IN  (/\ pc # "player_call"
         /\ \A j \in 1..Len(XPATH_MAP) : player_row[XPATH_MAP[j]] # NoSuchElement
         /\ Cardinality(SepPlaces(combined)) = 1) =>
            LET at == CHOOSE i \in SepPlaces(combined) : TRUE
                d == draft_values.values
            IN  /\ pc = "player_done"
                /\ draft_values.ok
                /\ DictKeys(d) = {fields[j] : j \in 1..Len(fields)}
                /\ Len(d) = Len(fields)
                /\ DictGet(d, TEAM, NoValue) = SubSeq(combined, 1, at - 1)
                /\ DictGet(d, POSITION, NoValue)
                      = SubSeq(combined, at + 3, Len(combined))
                /\ \A k \in {NAME, PROJECTED_VALUE, AVERAGE_COST,
                             PERCENT_DRAFTED} :
                      DictGet(d, k, NoValue) = player_row[k]

C5_Witness ==
    /\ pc = "player_done"
    /\ player_row[POSITION] = <<"A", SPACE, DASH, SPACE, "Q">>
    /\ DictGet(draft_values.values, TEAM, NoValue) = <<"A">>
    /\ DictGet(draft_values.values, POSITION, NoValue) = <<"Q">>

\* C6: a page whose load fails, or that holds a row with a missing element
\* or a combined text that does not split in two, is the last one fetched:
\* the function is left by that exception and the file is not written.
C6_ScrapeFailureTerminates ==
    \A k \in 1..Len(fetched) :
        (k > Len(pages) \/ ~PageScrapes(pages[k])) =>
            /\ k = Len(fetched)
            /\ ScrapeRaised
            /\ file = NoFile
            /\ ~ENABLED Next

C6_Witness ==
    /\ pc = "raised"
    /\ exc = "ValueError"
    /\ Len(fetched) = 2
    /\ Len(auction_values_list) = YAHOO_RESULTS_PER_PAGE
    /\ ~file.created

\* C7: the file written for a list of N dicts, read again as CSV with the
\* header as keys, gives N dicts, in the same order, with the same keys and
\* the same value under each key.
C7_RoundTrip ==
    pc = "read" =>
        /\ Len(read_back) = Len(auction_values_list)
        /\ \A i \in 1..Len(auction_values_list) :
              /\ DictKeys(read_back[i]) = DictKeys(auction_values_list[i])
              /\ Len(read_back[i]) = Len(auction_values_list[i])
              /\ \A j \in 1..Len(fields) :
                    DictGet(read_back[i], fields[j], NoValue)
                        = DictGet(auction_values_list[i], fields[j], NoValue)

C7_Witness ==
    /\ pc = "read"
    /\ Len(read_back) = 2
    /\ DictGet(auction_values_list[1], NAME, <<>>) = <<"x", DQUOTE>>
    /\ DictGet(auction_values_list[2], PERCENT_DRAFTED, <<>>) = <<LF>>
    /\ DictGet(read_back[2], PERCENT_DRAFTED, <<>>) = <<LF>>

\* C8: every string written to the file, the header line and each data
\* line, ends with '\n' and not with '\r\n'.
C8_LinesEndInLFOnly ==
    file.created =>
        \A i \in 1..Len(file.lines) :
            LET line == file.lines[i]
            IN  /\ Len(line) >= 1
                /\ line[Len(line)] = LF
                /\ Len(line) >= 2 => line[Len(line) - 1] # CR

C10_FetchesEveryOffsetOnce ==
    /\ \A k \in 1..Len(fetched) :
          /\ fetched[k] = (k - 1) * YAHOO_RESULTS_PER_PAGE
          /\ fetched[k] < total_players
    /\ pc \in {"write", "close", "done"} =>
          Len(fetched) = NumOffsets(total_players)
    /\ pc \notin {"start"} => driver # "none"
    /\ (pc \in {"write", "close", "done"} /\ total_players <= 0) =>
          /\ fetched = <<>>
          /\ warnings = <<>>
    /\ (pc = "done" /\ total_players <= 0) =>
          /\ file.created
          /\ file.lines = <<ExpectedHeader>>
          /\ driver = "closed"

C10_Witness ==
    /\ pc = "done"
    /\ total_players = YAHOO_RESULTS_PER_PAGE + 1
    /\ fetched = <<0, YAHOO_RESULTS_PER_PAGE>>
    /\ pages[1] = <<>>

====
